---- MODULE Spec2Model ----
(***************************************************************************)
(* Model of uniprot.py: the FASTA header extractor, the table writer, the  *)
(* download helper's pipe handling and the orchestration done by main.     *)
(* Text is modelled as sequences of characters, each a string: the         *)
(* character itself, or its code point name ("U+1680") above U+00FF.       *)
(***************************************************************************)
EXTENDS Integers, Sequences, FiniteSets, TLC

VARIABLES
    line, fields,                       \* one header extraction (lines 64-69)
    file, output_file, pos, rows, ppc, written,   \* parse_fasta_to_dataframe_with_progress
    args, pc, err, ran, procs, fs, dirs, fasta,   \* main
    fpc, cpc, cOut, cErr, outbuf, errbuf, rc, printed   \* download_with_progress and aria2c

vars == <<line, fields, file, output_file, pos, rows, ppc, written,
          args, pc, err, ran, procs, fs, dirs, fasta,
          fpc, cpc, cOut, cErr, outbuf, errbuf, rc, printed>>

extractVars == <<line, fields>>
parseVars == <<file, output_file, pos, rows, ppc, written>>
mainVars == <<args, pc, err, ran, procs, fs, dirs, fasta>>
runVars == <<args, pc, err, ran, procs, fasta>>
fetchVars == <<fpc, cpc, cOut, cErr, outbuf, errbuf, rc, printed>>

(***************************************************************************)
(* Bounds of the model.                                                    *)
(***************************************************************************)
MaxPieces == 4
MaxFilePieces == 4
MaxOut == 3
MaxErr == 3
PipeCap == 2

(***************************************************************************)
(* Text helpers: Python's str methods as the source uses them.             *)
(***************************************************************************)
NA == <<"N", "/", "A">>
OX == <<"O", "X", "=">>

\* the characters str.split() with no argument treats as separators, the 29
\* for which str.isspace() holds: space, tab, newline, carriage return, form
\* feed, vertical tab, the separators U+001C to U+001F, next-line U+0085,
\* no-break space U+00A0, and the seventeen above U+00FF, written by name
Whitespace == {" ", "\t", "\n", "\r", "\f", "", "", "", "", "", "", " ",
               "U+1680", "U+2000", "U+2001", "U+2002", "U+2003", "U+2004",
               "U+2005", "U+2006", "U+2007", "U+2008", "U+2009", "U+200A",
               "U+2028", "U+2029", "U+202F", "U+205F", "U+3000"}

RECURSIVE Flatten(_)
Flatten(ss) == IF ss = <<>> THEN <<>> ELSE Head(ss) \o Flatten(Tail(ss))

\* s[n:]
Drop(s, n) == IF n >= Len(s) THEN <<>> ELSE SubSeq(s, n + 1, Len(s))

\* line.startswith(">")
StartsWith(s, c) == Len(s) > 0 /\ s[1] = c

\* s.split(c): the segments between occurrences of c, empty segments kept
RECURSIVE SplitFrom(_, _, _)
SplitFrom(s, c, cur) ==
    IF s = <<>> THEN <<cur>>
    ELSE IF Head(s) = c THEN <<cur>> \o SplitFrom(Tail(s), c, <<>>)
    ELSE SplitFrom(Tail(s), c, Append(cur, Head(s)))

SplitOn(s, c) == SplitFrom(s, c, <<>>)

\* s.find(pat): lowest 0-based index of pat in s, or -1
RECURSIVE FindFrom(_, _, _)
FindFrom(s, pat, i) ==
    IF i + Len(pat) > Len(s) THEN -1
    ELSE IF SubSeq(s, i + 1, i + Len(pat)) = pat THEN i
    ELSE FindFrom(s, pat, i + 1)

Find(s, pat) == FindFrom(s, pat, 0)

\* s.split(): maximal runs of non-whitespace characters
RECURSIVE SplitWsFrom(_, _)
SplitWsFrom(s, cur) ==
    IF s = <<>> THEN (IF cur = <<>> THEN <<>> ELSE <<cur>>)
    ELSE IF Head(s) \in Whitespace
         THEN (IF cur = <<>> THEN <<>> ELSE <<cur>>) \o SplitWsFrom(Tail(s), <<>>)
    ELSE SplitWsFrom(Tail(s), Append(cur, Head(s)))

SplitWs(s) == SplitWsFrom(s, <<>>)

(***************************************************************************)
(* The per-header extraction, lines 65-68.                                 *)
(***************************************************************************)
\* parts[1] if len(parts) > 1 else "N/A"
BetweenPipesOf(parts) == IF Len(parts) > 1 THEN parts[2] ELSE NA

BetweenPipes(l) == BetweenPipesOf(SplitOn(l, "|"))

\* s.rfind(pat): highest 0-based index of pat in s, or -1
RECURSIVE FindLastFrom(_, _, _)
FindLastFrom(s, pat, i) ==
    IF i < 0 THEN -1
    ELSE IF i + Len(pat) <= Len(s) /\ SubSeq(s, i + 1, i + Len(pat)) = pat THEN i
    ELSE FindLastFrom(s, pat, i - 1)

\* the extraction with the tag located by rfind instead of find
OxStringLast(l) ==
    LET ox_index == FindLastFrom(l, OX, Len(l)) IN
    IF ox_index # -1
    THEN LET toks == SplitWs(Drop(l, ox_index + 3)) IN
         IF Len(toks) > 0 THEN [raised |-> FALSE, val |-> toks[1]]
         ELSE [raised |-> TRUE, val |-> <<>>]
    ELSE [raised |-> FALSE, val |-> NA]

\* line[ox_index + 3:].split()[0] if ox_index != -1 else "N/A";
\* indexing an empty token list raises IndexError
OxString(l) ==
    LET ox_index == Find(l, OX) IN
    IF ox_index # -1
    THEN LET toks == SplitWs(Drop(l, ox_index + 3)) IN
         IF Len(toks) > 0 THEN [raised |-> FALSE, val |-> toks[1]]
         ELSE [raised |-> TRUE, val |-> <<>>]
    ELSE [raised |-> FALSE, val |-> NA]

\* the body of the loop for one line: what is appended, or the exception
ExtractLine(l) ==
    IF StartsWith(l, ">")
    THEN LET ox == OxString(l) IN
         IF ox.raised THEN [kind |-> "IndexError", acc |-> <<>>, tax |-> <<>>]
         ELSE [kind |-> "row", acc |-> BetweenPipes(l), tax |-> ox.val]
    ELSE [kind |-> "skip", acc |-> <<>>, tax |-> <<>>]

(***************************************************************************)
(* Specification of one extraction: the line is any text built from at     *)
(* most n pieces, with or without the record marker in front and with or   *)
(* without its line terminator.                                            *)
(***************************************************************************)
LinePieces == {<<">">>, <<"|">>, <<"a">>, <<" ">>, <<"\t">>, <<"\f">>, <<"U+1680">>, OX, <<"O">>}

PieceSeqs(P, n) == UNION {[1..k -> P] : k \in 0..n}

LinesUpTo(n) ==
    {pre \o Flatten(ps) \o post :
        pre \in {<<>>, <<">">>}, ps \in PieceSeqs(LinePieces, n), post \in {<<>>, <<"\n">>}}

NoFields == [kind |-> "none", acc |-> <<>>, tax |-> <<>>]

Extract ==
    /\ fields.kind = "none"
    /\ fields' = ExtractLine(line)
    /\ UNCHANGED line

(***************************************************************************)
(* parse_fasta_to_dataframe_with_progress, lines 60-73.                    *)
(***************************************************************************)
\* iterating a text file opened with open(path, 'r') (universal newlines:
\* "\r\n" and a lone "\r" end a line and reach the program as "\n"):
\* each line keeps its "\n"; the last may lack one
RECURSIVE ReadLinesFrom(_, _)
ReadLinesFrom(s, cur) ==
    IF s = <<>> THEN (IF cur = <<>> THEN <<>> ELSE <<cur>>)
    ELSE IF Head(s) = "\r"
         THEN <<Append(cur, "\n")>>
                 \o ReadLinesFrom(IF Len(s) > 1 /\ s[2] = "\n" THEN Tail(Tail(s)) ELSE Tail(s), <<>>)
    ELSE IF Head(s) = "\n"
         THEN <<Append(cur, "\n")>> \o ReadLinesFrom(Tail(s), <<>>)
    ELSE ReadLinesFrom(Tail(s), Append(cur, Head(s)))

ReadLines(f) == ReadLinesFrom(f, <<>>)

\* DataFrame.to_csv(sep="\t", index=False, header=False): the csv writer with
\* minimal quoting quotes a field holding the delimiter, the quote character
\* or a line terminator character, and doubles the quote characters in it
NeedsQuote(f) == \E i \in 1..Len(f) : f[i] \in {"\t", "\"", "\n"}

RECURSIVE DoubleQuotes(_)
DoubleQuotes(f) ==
    IF f = <<>> THEN <<>>
    ELSE IF Head(f) = "\"" THEN <<"\"", "\"">> \o DoubleQuotes(Tail(f))
    ELSE <<Head(f)>> \o DoubleQuotes(Tail(f))

CsvField(f) == IF NeedsQuote(f) THEN <<"\"">> \o DoubleQuotes(f) \o <<"\"">> ELSE f

CsvRow(r) == CsvField(r[1]) \o <<"\t">> \o CsvField(r[2]) \o <<"\n">>

ToCsv(rs) == Flatten([i \in 1..Len(rs) |-> CsvRow(rs[i])])

FilePieces == {<<">">>, <<"|">>, <<"a">>, <<"\n">>, <<"\r">>, <<"\t">>, <<"\"">>, OX, <<" ">>,
               <<"U+1680">>}

FilesUpTo(n) == {Flatten(ps) : ps \in PieceSeqs(FilePieces, n)}

\* one iteration of the loop of lines 63-69
ReadLine ==
    /\ ppc = "reading"
    /\ pos < Len(ReadLines(file))
    /\ LET r == ExtractLine(ReadLines(file)[pos + 1]) IN
       /\ pos' = pos + 1
       /\ rows' = IF r.kind = "row" THEN Append(rows, <<r.acc, r.tax>>) ELSE rows
       /\ ppc' = IF r.kind = "IndexError" THEN "IndexError" ELSE "reading"
    /\ UNCHANGED <<file, output_file, written, fs, dirs>>

\* os.path.dirname
Dirname(p) == SubSeq(p, 1, Len(p) - 1)

\* the directories os.makedirs(d, exist_ok=True) leaves in place
Prefixes(d) == {SubSeq(d, 1, k) : k \in 1..Len(d)}

\* os.makedirs("") raises FileNotFoundError
MakedirsRaises(d) == d = <<>>

\* lines 70-72: the table is built, the parent directories of the output
\* path are made, and the table is written to it
WriteTable ==
    /\ ppc = "reading"
    /\ pos = Len(ReadLines(file))
    /\ IF MakedirsRaises(Dirname(output_file))
       THEN /\ ppc' = "FileNotFoundError"
            /\ UNCHANGED <<written, fs, dirs>>
       ELSE /\ dirs' = dirs \cup Prefixes(Dirname(output_file))
            /\ fs' = fs \cup {output_file}
            /\ written' = ToCsv(rows)
            /\ ppc' = "written"
    /\ UNCHANGED <<file, output_file, pos, rows>>

(***************************************************************************)
(* main, lines 118-160, and the stages it calls.  Paths are sequences of   *)
(* components; fs is the set of files that exist, dirs the directories.    *)
(***************************************************************************)
GzName(db) == IF db = "swissprot" THEN "viral_proteomes_swissprot.fasta.gz"
              ELSE "viral_proteomes_trembl.fasta.gz"

FastaName(db) == IF db = "swissprot" THEN "viral_proteomes_swissprot.fasta"
                 ELSE "viral_proteomes_trembl.fasta"

\* os.path.join(output_dir, f"viral_proteomes_{args.db}.fasta.gz")
GzPath(a) == <<a.db, GzName(a.db)>>

\* gz_path.replace(".fasta.gz", ".fasta")
FastaPath(a) == <<a.db, FastaName(a.db)>>

NodesDmp == <<"TAX", "nodes.dmp">>
TaxArchive == <<"TAX", "taxdump.tar.gz">>

\* check_file_exists: os.path.isfile
IsFile(p, files) == p \in files

\* the verification with the taxonomy nodes file left out
RequiredFilesNoNodes(a) == <<FastaPath(a), a.output>>

\* the files main verifies before the build, in the order it checks them
RequiredFiles(a) == <<FastaPath(a), a.output, NodesDmp>>

\* the download helper with the return code ignored
FetchNeverRaises(returncode) == FALSE

\* line 36: process.returncode != 0
FetchRaises(returncode) == returncode # 0

\* subprocess.run(..., check=True) raises CalledProcessError on a nonzero code
CheckRaises(returncode) == returncode # 0

ReturnCode(status) == IF status = "exit0" THEN 0 ELSE 1

\* how an external process can end: exit code zero, nonzero, or never launched
Statuses == {"exit0", "exit1", "nolaunch"}

\* the flags that guard the optional stages, lines 143, 146, 150, 154
RunsExtract(a) == ~a.skip_taxid
RunsDelete(a) == ~a.keep_intermediate
RunsTaxonomyNeedsTaxid(a) == ~a.skip_taxonomy /\ ~a.skip_taxid
RunsTaxonomy(a) == ~a.skip_taxonomy
RunsBuild(a) == ~a.skip_mmseqs

\* the whole loop of lines 63-69 over a file: the rows, or the IndexError
RECURSIVE ParseLines(_, _)
ParseLines(ls, acc) ==
    IF ls = <<>> THEN [raised |-> FALSE, rows |-> acc]
    ELSE LET r == ExtractLine(Head(ls)) IN
         IF r.kind = "IndexError" THEN [raised |-> TRUE, rows |-> acc]
         ELSE IF r.kind = "row" THEN ParseLines(Tail(ls), Append(acc, <<r.acc, r.tax>>))
         ELSE ParseLines(Tail(ls), acc)

Outputs == {<<"taxid_aa", "taxid_aa.tsv">>, <<"out.tsv">>, <<"new", "sub", "t.tsv">>,
            <<"swissprot", "viral_proteomes_swissprot.fasta.gz">>}

Args == [db : {"swissprot", "trembl"}, output : Outputs,
         keep_intermediate : BOOLEAN, skip_taxonomy : BOOLEAN,
         skip_taxid : BOOLEAN, skip_mmseqs : BOOLEAN]

\* decompressed contents the download may hold
SampleFastas == {
    <<>>,
    <<">", "s", "p", "|", "P", "1", "|", "N", " ", "O", "X", "=", "9", " ", "G", "\n",
      "M", "S", "\n">>,
    <<">", "t", "r", "|", "Q", "9", "|", "N", "\n", "S", "\n", ">", "m", " ", "O", "X", "=",
      "1", "\n">>,
    <<">", "s", "p", "|", "P", "1", "|", "N", " ", "O", "X", "=", "\n", "M", "\n">>,
    <<">", "a", "|", "b", " ", "O", "X", "=", "9", "U+1680", "G", "\n">> }

NoArgs == [db |-> "swissprot", output |-> <<"out.tsv">>, keep_intermediate |-> FALSE,
           skip_taxonomy |-> FALSE, skip_taxid |-> FALSE, skip_mmseqs |-> FALSE]

Stage(name, ok) == [stage |-> name, ok |-> ok]
Proc(name, status) == [name |-> name, status |-> status]

\* a stage ends in an exception: nothing after it runs
Abort(name, error) ==
    /\ pc' = "failed"
    /\ err' = error
    /\ ran' = Append(ran, Stage(name, FALSE))

\* line 140: download_with_progress, lines 28-38; a client that fails or
\* never exits may have left a partial download at the output path
Fetch ==
    /\ pc = "fetch"
    /\ \/ \E st \in Statuses :
            /\ procs' = Append(procs, Proc("aria2c_sequences", st))
            /\ IF st = "nolaunch"
               THEN Abort("fetch", "OSError") /\ UNCHANGED <<fs, dirs>>
               ELSE IF FetchRaises(ReturnCode(st))
               THEN /\ Abort("fetch", "RuntimeError")
                    /\ \E partial \in BOOLEAN :
                         IF partial
                         THEN fs' = fs \cup {GzPath(args)} /\ dirs' = dirs \cup {<<args.db>>}
                         ELSE UNCHANGED <<fs, dirs>>
               ELSE /\ pc' = "decompress"
                    /\ ran' = Append(ran, Stage("fetch", TRUE))
                    /\ fs' = fs \cup {GzPath(args)}
                    /\ dirs' = dirs \cup {<<args.db>>}
                    /\ UNCHANGED err
       \/ \* the client never exits: the loop of line 33 or the wait never ends
          /\ procs' = Append(procs, Proc("aria2c_sequences", "noexit"))
          /\ pc' = "hung"
          /\ ran' = Append(ran, Stage("fetch", FALSE))
          /\ \E partial \in BOOLEAN :
               IF partial
               THEN fs' = fs \cup {GzPath(args)} /\ dirs' = dirs \cup {<<args.db>>}
               ELSE UNCHANGED <<fs, dirs>>
          /\ UNCHANGED err
    /\ UNCHANGED <<args, fasta>>

\* line 141: decompress_fasta_gz, lines 47-51; the output file is opened for
\* writing before the first compressed byte is read
Decompress ==
    /\ pc = "decompress"
    /\ fs' = fs \cup {FastaPath(args)}
    /\ \/ \E content \in SampleFastas :
            /\ fasta' = content
            /\ pc' = "extract"
            /\ ran' = Append(ran, Stage("decompress", TRUE))
            /\ UNCHANGED err
       \/ Abort("decompress", "BadGzipFile") /\ UNCHANGED fasta
    /\ UNCHANGED <<args, procs, dirs>>

\* lines 143-144: parse_fasta_to_dataframe_with_progress, lines 60-73
ExtractHeaders ==
    /\ pc = "extract"
    /\ IF RunsExtract(args)
       THEN LET res == ParseLines(ReadLines(fasta), <<>>)
                d == Dirname(args.output) IN
            IF res.raised
            THEN Abort("extract", "IndexError") /\ UNCHANGED <<fs, dirs>>
            ELSE IF MakedirsRaises(d)
            THEN Abort("extract", "MakedirsError") /\ UNCHANGED <<fs, dirs>>
            ELSE /\ dirs' = dirs \cup Prefixes(d)
                 /\ fs' = fs \cup {args.output}
                 /\ pc' = "delete"
                 /\ ran' = Append(ran, Stage("extract", TRUE))
                 /\ UNCHANGED err
       ELSE pc' = "delete" /\ UNCHANGED <<fs, dirs, ran, err>>
    /\ UNCHANGED <<args, procs, fasta>>

\* lines 146-148
DeleteGz ==
    /\ pc = "delete"
    /\ IF RunsDelete(args)
       THEN /\ fs' = fs \ {GzPath(args)}
            /\ ran' = Append(ran, Stage("delete", TRUE))
       ELSE UNCHANGED <<fs, ran>>
    /\ pc' = "taxonomy"
    /\ UNCHANGED <<args, err, procs, dirs, fasta>>

\* lines 150-152: download_and_extract_taxonomy, lines 82-92; a download
\* that fails may have left a partial archive, and an extraction that fails
\* may have unpacked the nodes file before it failed
Taxonomy ==
    /\ pc = "taxonomy"
    /\ IF RunsTaxonomy(args)
       THEN /\ dirs' = dirs \cup {<<"TAX">>}
            /\ \E s1 \in Statuses :
                 IF s1 = "nolaunch" \/ CheckRaises(ReturnCode(s1))
                 THEN /\ procs' = Append(procs, Proc("aria2c_taxonomy", s1))
                      /\ Abort("taxonomy", IF s1 = "nolaunch" THEN "OSError"
                                           ELSE "CalledProcessError")
                      /\ IF s1 = "nolaunch"
                         THEN UNCHANGED fs
                         ELSE \E partial \in BOOLEAN :
                                 fs' = fs \cup (IF partial THEN {TaxArchive} ELSE {})
                 ELSE \E s2 \in Statuses :
                      /\ procs' = procs \o <<Proc("aria2c_taxonomy", s1), Proc("tar", s2)>>
                      /\ IF s2 = "nolaunch"
                         THEN /\ Abort("taxonomy", "OSError")
                              /\ fs' = fs \cup {TaxArchive}
                         ELSE IF CheckRaises(ReturnCode(s2))
                         THEN /\ Abort("taxonomy", "CalledProcessError")
                              /\ \E hasNodes \in BOOLEAN :
                                   fs' = fs \cup {TaxArchive}
                                            \cup (IF hasNodes THEN {NodesDmp} ELSE {})
                         ELSE /\ \E hasNodes \in BOOLEAN :
                                   fs' = (fs \cup (IF hasNodes THEN {NodesDmp} ELSE {}))
                                            \ {TaxArchive}
                              /\ pc' = "verify"
                              /\ ran' = Append(ran, Stage("taxonomy", TRUE))
                              /\ UNCHANGED err
       ELSE pc' = "verify" /\ UNCHANGED <<fs, dirs, ran, err, procs>>
    /\ UNCHANGED <<args, fasta>>

\* lines 154-157: the three check_file_exists calls
Verify ==
    /\ pc = "verify"
    /\ IF RunsBuild(args)
       THEN IF \E i \in 1..Len(RequiredFiles(args)) : ~IsFile(RequiredFiles(args)[i], fs)
            THEN Abort("verify", "RequiredFileNotFound")
            ELSE /\ pc' = "build"
                 /\ ran' = Append(ran, Stage("verify", TRUE))
                 /\ UNCHANGED err
       ELSE pc' = "done" /\ UNCHANGED <<ran, err>>
    /\ UNCHANGED <<args, procs, fs, dirs, fasta>>

\* line 158: build_mmseqs_db, lines 103-116, then line 160
Build ==
    /\ pc = "build"
    /\ dirs' = dirs \cup {<<"DB_MMSEQ2_aa">>, <<"DB_MMSEQ2_aa", "tmp">>}
    /\ \E s1 \in Statuses :
         IF s1 = "nolaunch" \/ CheckRaises(ReturnCode(s1))
         THEN /\ procs' = Append(procs, Proc("mmseqs_createdb", s1))
              /\ Abort("build", IF s1 = "nolaunch" THEN "OSError" ELSE "CalledProcessError")
         ELSE \E s2 \in Statuses :
              /\ procs' = procs \o <<Proc("mmseqs_createdb", s1), Proc("mmseqs_createtaxdb", s2)>>
              /\ IF s2 = "nolaunch" \/ CheckRaises(ReturnCode(s2))
                 THEN Abort("build", IF s2 = "nolaunch" THEN "OSError"
                                     ELSE "CalledProcessError")
                 ELSE /\ pc' = "done"
                      /\ ran' = Append(ran, Stage("build", TRUE))
                      /\ UNCHANGED err
    /\ UNCHANGED <<args, fs, fasta>>

(***************************************************************************)
(* download_with_progress, lines 32-38, with the client at the other end   *)
(* of the two pipes.  The client has cOut lines left to write to stdout    *)
(* and cErr to stderr; a pipe holds at most PipeCap lines; a write to a    *)
(* full pipe blocks.  The caller reads stdout only.                        *)
(***************************************************************************)
\* line 32: subprocess.Popen, which raises when the program cannot be launched
Popen ==
    /\ fpc = "start"
    /\ \/ fpc' = "reading" /\ cpc' = "run"
       \/ fpc' = "raised" /\ cpc' = "idle"
    /\ UNCHANGED <<cOut, cErr, outbuf, errbuf, rc, printed>>

\* the client turns to its next write
ClientChoose ==
    /\ cpc = "run"
    /\ \/ cOut > 0 /\ cpc' = "wout"
       \/ cErr > 0 /\ cpc' = "werr"
    /\ UNCHANGED <<fpc, cOut, cErr, outbuf, errbuf, rc, printed>>

ClientWriteOut ==
    /\ cpc = "wout"
    /\ outbuf < PipeCap
    /\ outbuf' = outbuf + 1
    /\ cOut' = cOut - 1
    /\ cpc' = "run"
    /\ UNCHANGED <<fpc, cErr, errbuf, rc, printed>>

ClientWriteErr ==
    /\ cpc = "werr"
    /\ errbuf < PipeCap
    /\ errbuf' = errbuf + 1
    /\ cErr' = cErr - 1
    /\ cpc' = "run"
    /\ UNCHANGED <<fpc, cOut, outbuf, rc, printed>>

\* the client has nothing left to write and exits, closing its pipe ends
ClientExit ==
    /\ cpc = "run"
    /\ cOut = 0
    /\ cErr = 0
    /\ cpc' = "exited"
    /\ UNCHANGED <<fpc, cOut, cErr, outbuf, errbuf, rc, printed>>

\* lines 33-34: one iteration of the loop over process.stdout
ReadStdout ==
    /\ fpc = "reading"
    /\ outbuf > 0
    /\ outbuf' = outbuf - 1
    /\ printed' = printed + 1
    /\ UNCHANGED <<fpc, cpc, cOut, cErr, errbuf, rc>>

\* the loop of line 33 ends at end-of-file: the pipe is empty and closed
StdoutEof ==
    /\ fpc = "reading"
    /\ outbuf = 0
    /\ cpc = "exited"
    /\ fpc' = "waiting"
    /\ UNCHANGED <<cpc, cOut, cErr, outbuf, errbuf, rc, printed>>

\* lines 35-38: process.wait() and the return code test
Wait ==
    /\ fpc = "waiting"
    /\ cpc = "exited"
    /\ fpc' = IF FetchRaises(rc) THEN "raised" ELSE "returned"
    /\ UNCHANGED <<cpc, cOut, cErr, outbuf, errbuf, rc, printed>>

(***************************************************************************)
(* Initial states.  Each specification starts one part of the program and  *)
(* leaves the variables of the other parts at rest.                         *)
(***************************************************************************)
IdleParse ==
    /\ file = <<>> /\ output_file = <<>> /\ pos = 0 /\ rows = <<>>
    /\ ppc = "idle" /\ written = <<>>

IdleExtract == line = <<>> /\ fields = NoFields

IdleRun ==
    /\ args = NoArgs /\ pc = "idle" /\ err = "none" /\ ran = <<>> /\ procs = <<>>
    /\ fasta = <<>>

IdleMain == IdleRun /\ fs = {} /\ dirs = {}

IdleFetch ==
    /\ fpc = "idle" /\ cpc = "idle" /\ cOut = 0 /\ cErr = 0
    /\ outbuf = 0 /\ errbuf = 0 /\ rc = 0 /\ printed = 0

InitExtract ==
    /\ line \in LinesUpTo(MaxPieces)
    /\ fields = NoFields
    /\ IdleParse /\ IdleMain /\ IdleFetch

\* a call of the parse: any file, any output path, the default output
\* directory there or not, no table yet
InitParse ==
    /\ file \in FilesUpTo(MaxFilePieces)
    /\ output_file \in Outputs
    /\ pos = 0
    /\ rows = <<>>
    /\ ppc = "reading"
    /\ written = <<>>
    /\ fs = {}
    /\ dirs \in SUBSET {<<"taxid_aa">>}
    /\ IdleExtract /\ IdleRun /\ IdleFetch

\* before the run: any flags, and any of the files of interest already there
InitMain ==
    /\ args \in Args
    /\ pc = "fetch"
    /\ err = "none"
    /\ ran = <<>>
    /\ procs = <<>>
    /\ fs \in SUBSET {FastaPath(args), args.output, NodesDmp}
    /\ \E extra \in SUBSET {<<"taxid_aa">>, <<"TAX">>} :
          dirs = extra \cup UNION {Prefixes(Dirname(f)) : f \in fs}
    /\ fasta = <<>>
    /\ IdleExtract /\ IdleParse /\ IdleFetch

InitFetch ==
    /\ fpc = "start"
    /\ cpc = "idle"
    /\ cOut \in 0..MaxOut
    /\ cErr \in 0..MaxErr
    /\ rc \in {0, 1}
    /\ outbuf = 0
    /\ printed = 0
    /\ errbuf = 0
    /\ IdleExtract /\ IdleParse /\ IdleMain

(***************************************************************************)
(* The specifications.                                                     *)
(***************************************************************************)
NextExtract == Extract /\ UNCHANGED <<parseVars, mainVars, fetchVars>>

SpecExtract == InitExtract /\ [][NextExtract]_vars

NextParse ==
    \/ ReadLine /\ UNCHANGED <<extractVars, runVars, fetchVars>>
    \/ WriteTable /\ UNCHANGED <<extractVars, runVars, fetchVars>>

SpecParse == InitParse /\ [][NextParse]_vars

NextMain ==
    \/ Fetch /\ UNCHANGED <<extractVars, parseVars, fetchVars>>
    \/ Decompress /\ UNCHANGED <<extractVars, parseVars, fetchVars>>
    \/ ExtractHeaders /\ UNCHANGED <<extractVars, parseVars, fetchVars>>
    \/ DeleteGz /\ UNCHANGED <<extractVars, parseVars, fetchVars>>
    \/ Taxonomy /\ UNCHANGED <<extractVars, parseVars, fetchVars>>
    \/ Verify /\ UNCHANGED <<extractVars, parseVars, fetchVars>>
    \/ Build /\ UNCHANGED <<extractVars, parseVars, fetchVars>>

SpecMain == InitMain /\ [][NextMain]_vars

NextFetch ==
    \/ Popen /\ UNCHANGED <<extractVars, parseVars, mainVars>>
    \/ ClientChoose /\ UNCHANGED <<extractVars, parseVars, mainVars>>
    \/ ClientWriteOut /\ UNCHANGED <<extractVars, parseVars, mainVars>>
    \/ ClientWriteErr /\ UNCHANGED <<extractVars, parseVars, mainVars>>
    \/ ClientExit /\ UNCHANGED <<extractVars, parseVars, mainVars>>
    \/ ReadStdout /\ UNCHANGED <<extractVars, parseVars, mainVars>>
    \/ StdoutEof /\ UNCHANGED <<extractVars, parseVars, mainVars>>
    \/ Wait /\ UNCHANGED <<extractVars, parseVars, mainVars>>

SpecFetch == InitFetch /\ [][NextFetch]_vars

Init == InitMain
Next == NextMain
Spec == SpecMain

(***************************************************************************)
(* Vocabulary of the properties.                                           *)
(***************************************************************************)
Max(S) == CHOOSE x \in S : \A y \in S : y <= x
Min(S) == CHOOSE x \in S : \A y \in S : x <= y

\* the 1-based positions at which "OX=" starts in l
OXPositions(l) == {i \in 1..Len(l) : i + 2 <= Len(l) /\ SubSeq(l, i, i + 2) = OX}

\* the position just after the first "OX=" of l
AfterFirstOX(l) == Min(OXPositions(l)) + 3

\* the positions after the first "OX=" that hold a non-whitespace character
TokenPositions(l) == {k \in AfterFirstOX(l)..Len(l) : l[k] \notin Whitespace}

\* the maximal run of non-whitespace characters of l that starts at position p
RunFrom(l, p) ==
    SubSeq(l, p, Max({e \in (p - 1)..Len(l) : \A k \in p..e : l[k] \notin Whitespace}))

\* the header text: the line without its line terminator
StripTerminator(l) ==
    IF Len(l) > 0 /\ l[Len(l)] = "\n" THEN SubSeq(l, 1, Len(l) - 1) ELSE l

\* a header whose first "OX=" is followed by whitespace only, or by nothing
OxNoToken(l) == StartsWith(l, ">") /\ OXPositions(l) # {} /\ TokenPositions(l) = {}

\* the pairs the headers among ls stand for, an absent token read as ""
RECURSIVE ExpectedRows(_)
ExpectedRows(ls) ==
    IF ls = <<>> THEN <<>>
    ELSE IF StartsWith(Head(ls), ">")
         THEN <<<<BetweenPipes(Head(ls)), OxString(Head(ls)).val>>>> \o ExpectedRows(Tail(ls))
         ELSE ExpectedRows(Tail(ls))

\* the written text split on newlines, each line then split on tabs
ReSplit(text) ==
    LET ls == SplitOn(text, "\n") IN
    [i \in 1..(Len(ls) - 1) |-> SplitOn(ls[i], "\t")]

StageOrder == <<"fetch", "decompress", "extract", "delete", "taxonomy", "verify", "build">>
Stages == {StageOrder[i] : i \in 1..Len(StageOrder)}
StageIdx(s) == CHOOSE i \in 1..Len(StageOrder) : StageOrder[i] = s

HasRun(s) == \E i \in 1..Len(ran) : ran[i].stage = s
Succeeded(s) == \E i \in 1..Len(ran) : ran[i].stage = s /\ ran[i].ok

\* the stage is switched off by its command-line flag
Disabled(s) ==
    \/ s = "extract" /\ args.skip_taxid
    \/ s = "delete" /\ args.keep_intermediate
    \/ s = "taxonomy" /\ args.skip_taxonomy
    \/ s \in {"verify", "build"} /\ args.skip_mmseqs

\* every stage before s either succeeded or was switched off and did not run
EarlierSucceeded(s) ==
    \A t \in Stages : StageIdx(t) < StageIdx(s) =>
        IF Disabled(t) THEN ~HasRun(t) ELSE Succeeded(t)

InOrder == \A i, j \in 1..Len(ran) : i < j => StageIdx(ran[i].stage) < StageIdx(ran[j].stage)

Terminal == pc \in {"done", "failed", "hung"}

FailedProcs == {i \in 1..Len(procs) : procs[i].status \in {"exit1", "nolaunch"}}

StageOfProc(name) ==
    IF name = "aria2c_sequences" THEN "fetch"
    ELSE IF name \in {"aria2c_taxonomy", "tar"} THEN "taxonomy"
    ELSE "build"

NoMmseqs == \A i \in 1..Len(procs) : procs[i].name \notin {"mmseqs_createdb", "mmseqs_createtaxdb"}

(***************************************************************************)
(* The claims.                                                             *)
(***************************************************************************)

\* C1: the accession recorded for a header is the second '|'-delimited
\* segment of the header text without its line terminator, or "N/A" when the
\* header has fewer than two segments.  (Fails: the terminator stays in the
\* segment when that segment ends the line.)
C1_SecondSegmentOfHeaderText ==
    fields.kind = "row" =>
        LET segs == SplitOn(StripTerminator(line), "|") IN
        fields.acc = IF Len(segs) >= 2 THEN segs[2] ELSE NA

\* C2 as stated: a header in which some "OX=" is directly followed by a token
\* gets the run of non-whitespace characters directly after the FIRST "OX=",
\* and a header without "OX=" gets "N/A".
C2_RunAfterFirstOX ==
    (fields.kind # "none" /\ StartsWith(line, ">")) =>
        /\ (\E i \in OXPositions(line) : i + 3 <= Len(line) /\ line[i + 3] \notin Whitespace)
              => (fields.kind = "row" /\ fields.tax = RunFrom(line, AfterFirstOX(line)))
        /\ OXPositions(line) = {} => (fields.kind = "row" /\ fields.tax = NA)

\* C2 amended: when the text after the first "OX=" holds a non-whitespace
\* character, taxon_id is the first whitespace-delimited token of that text
\* (whitespace right after "OX=" is skipped); when the first "OX=" is directly
\* followed by a non-whitespace character that token is the run directly
\* after it; a header without "OX=" gets "N/A".
C2_FirstTokenAfterFirstOX ==
    (fields.kind # "none" /\ StartsWith(line, ">")) =>
        /\ (OXPositions(line) # {} /\ TokenPositions(line) # {})
              => /\ fields.kind = "row"
                 /\ fields.tax = RunFrom(line, Min(TokenPositions(line)))
                 /\ (line[AfterFirstOX(line)] \notin Whitespace
                       => fields.tax = RunFrom(line, AfterFirstOX(line)))
        /\ OXPositions(line) = {} => (fields.kind = "row" /\ fields.tax = NA)

\* C2 witness: two "OX=" in a header, the first directly followed by a token,
\* and the extraction has produced that token.
C2_Witness ==
    /\ fields.kind = "row"
    /\ Cardinality(OXPositions(line)) = 2
    /\ line[AfterFirstOX(line)] \notin Whitespace
    /\ fields.tax = <<"a">>

\* C3: after any prefix of the file has been read, the table is exactly the
\* pairs of the header lines of that prefix, in order.  (Fails: a header whose
\* "OX=" has no token ends the loop with IndexError and adds no row.)
C3_RowsAreHeadersOfPrefix ==
    ppc # "idle" => rows = ExpectedRows(SubSeq(ReadLines(file), 1, pos))

\* C4: the written table, split on newlines and then on tabs, is the sequence
\* of extracted pairs.  (Fails: a field holding a newline, a tab or a quote is
\* written quoted.)
C4_RoundTrip == ppc = "written" => ReSplit(written) = rows

\* C5: when --skip-mmseqs is not given and one of the FASTA file, the taxid
\* table and TAX/nodes.dmp is absent once the build stage is reached, the run
\* has failed with the missing-file error and mmseqs was never invoked.
C5_MissingFileStopsBuild ==
    (~args.skip_mmseqs /\ HasRun("verify")
       /\ \E f \in {FastaPath(args), args.output, NodesDmp} : f \notin fs)
    => (pc = "failed" /\ err = "RequiredFileNotFound" /\ NoMmseqs)

\* C5 witness: the table was written, then deleted with the compressed file
\* (--output names it), and the verification failed.
C5_Witness ==
    /\ Succeeded("extract")
    /\ args.output \notin fs
    /\ HasRun("verify")
    /\ pc = "failed"

\* C6: once an external process has exited nonzero or failed to launch, it is
\* the last process started, its stage is the last stage run, and the run is
\* in the failed state (never "done").
C6_ProcessFailureAborts ==
    \A i \in FailedProcs :
        /\ i = Len(procs)
        /\ pc = "failed"
        /\ ran[Len(ran)] = Stage(StageOfProc(procs[i].name), FALSE)

\* C6 witness: tar exited nonzero after a successful taxonomy download.
C6_Witness ==
    /\ Len(procs) > 0
    /\ procs[Len(procs)] = Proc("tar", "exit1")
    /\ pc = "failed"

\* C7 as stated: stages run in the fixed order; fetch and decompress always
\* run; each later stage runs iff all earlier stages succeeded and its flag
\* does not disable it.
C7_FetchAndDecompressAlwaysRun ==
    /\ InOrder
    /\ Terminal =>
         /\ HasRun("fetch") /\ HasRun("decompress")
         /\ \A s \in Stages \ {"fetch", "decompress"} :
               HasRun(s) <=> (EarlierSucceeded(s) /\ ~Disabled(s))

\* C7 amended: stages run in the fixed order; fetch always runs; every other
\* stage, decompress included, runs iff all earlier stages succeeded and its
\* flag (decompress has none) does not disable it.
C7_StagesRunInOrder ==
    /\ InOrder
    /\ Terminal =>
         \A s \in Stages : HasRun(s) <=> (EarlierSucceeded(s) /\ ~Disabled(s))

\* C7 witness: a finished run that skipped the header extraction and still
\* fetched the taxonomy and built the database.
C7_Witness ==
    /\ pc = "done"
    /\ args.skip_taxid
    /\ ~HasRun("extract")
    /\ Succeeded("taxonomy")
    /\ Succeeded("build")

\* C8: whatever the output path (parent directory there, missing, or no
\* directory component at all), once the rows are built the parse makes the
\* missing parent directories and writes the table without an error.
\* (Fails: a bare file name makes os.makedirs("") raise.)
C8_TableWrittenForEveryPath ==
    (pos = Len(ReadLines(file)) /\ ppc \notin {"idle", "reading", "IndexError"})
    => /\ ppc = "written"
       /\ IsFile(output_file, fs)
       /\ Prefixes(Dirname(output_file)) \subseteq dirs

\* C9: a header whose "OX=" is followed by no token yields a row with an
\* empty taxon_id, and the parse goes on.  (Fails: IndexError is raised.)
C9_EmptyTaxonRow ==
    (pos > 0 /\ OxNoToken(ReadLines(file)[pos]))
    => /\ ppc \in {"reading", "written"}
       /\ Len(rows) > 0
       /\ rows[Len(rows)][2] = <<>>

\* C10: the caller and the download client never wait for each other.
\* (Fails: the client blocks writing to the full stderr pipe, which nobody
\* reads, while the caller waits for stdout to reach end-of-file.)
C10_NoMutualWait ==
    ~(fpc = "reading" /\ outbuf = 0 /\ cpc = "werr" /\ errbuf = PipeCap)

====
